---- MODULE Spec2Model ----
(***************************************************************************)
(* A model of the Obsidian "Semantic Context Fetcher" plugin:              *)
(*   - the Result Mapper (ChromaDBService.processChromaResults),           *)
(*   - the subprocess bridge (runPythonScript, runPythonScriptWithArgs and *)
(*     the older runPythonQuery) as the outcome of a closed process,       *)
(*   - the indexing workflows of main.ts,                                  *)
(*   - the search workflows of services/ContextFetcherService.ts,          *)
(*   - the command-line variant of the search with its tracked process,    *)
(*     stop control and 60 second timer.                                   *)
(*                                                                         *)
(* Strings whose characters matter are sequences of one-character strings. *)
(* A value that may be undefined is a sequence of length 0 (undefined) or  *)
(* 1 (the value).                                                          *)
(***************************************************************************)
EXTENDS Integers, Sequences, FiniteSets, TLC

VARIABLES
    \* Result Mapper, applied to one input
    mResults, mCurrent, mOut, mKept, mDone,
    \* one subprocess invocation of the bridge
    bVariant, bLaunchFails, bCode, bStdout, bErrored, bClosed, bOutcome,
    \* indexing: the operations in flight and the persisted settings
    ops, settings,
    \* the notices shown by the last step
    notices,
    \* ContextFetcherView: the list shown and the loading flag
    contextItems, isLoading,
    \* the searches in flight (embedding and nearest-neighbor query), and the
    \* order of their starts
    searches, startOrder,
    \* command-line variant: the fetches in flight and the tracked process and timer
    cli, currentExecProcess, currentTimeoutId,
    \* the settings object the service was constructed with, the search of the
    \* configuration study and the query request it sent last
    chromaSettings, lookup, request,
    \* the vector database: the documents of each collection, the call of the
    \* service in flight and the calls that ended last
    collections, call, callLog,
    \* the quiz app: the fields of the QuizEngine with the visible screen, and
    \* the answers submitted since the quiz was started
    quiz, answered

mapVars == <<mResults, mCurrent, mOut, mKept, mDone>>
bridgeVars == <<bVariant, bLaunchFails, bCode, bStdout, bErrored, bClosed, bOutcome>>
idxVars == <<ops, settings>>
viewVars == <<contextItems, isLoading>>
searchVars == <<searches, startOrder>>
cliVars == <<cli, currentExecProcess, currentTimeoutId>>
configVars == <<chromaSettings, lookup, request>>
storeVars == <<collections, call, callLog>>
quizVars == <<quiz, answered>>
vars == <<mResults, mCurrent, mOut, mKept, mDone,
          bVariant, bLaunchFails, bCode, bStdout, bErrored, bClosed, bOutcome,
          ops, settings, notices, contextItems, isLoading, searches, startOrder,
          cli, currentExecProcess, currentTimeoutId,
          chromaSettings, lookup, request, collections, call, callLog, quiz, answered>>

\* what the steps of one part leave alone
outsideMapper == <<bridgeVars, idxVars, notices, viewVars, searchVars, cliVars, configVars,
                   storeVars, quizVars>>
outsideBridge == <<mapVars, idxVars, notices, viewVars, searchVars, cliVars, configVars,
                   storeVars, quizVars>>
outsideIndex == <<mapVars, bridgeVars, viewVars, searchVars, cliVars, configVars, storeVars,
                  quizVars>>
outsideSearch == <<mapVars, bridgeVars, idxVars, cliVars, configVars, storeVars, quizVars>>
outsideCli == <<mapVars, bridgeVars, idxVars, searchVars, configVars, storeVars, quizVars>>
outsideConfig == <<mapVars, bridgeVars, ops, notices, viewVars, searchVars, cliVars, storeVars,
                   quizVars>>
outsideStore == <<mapVars, bridgeVars, idxVars, notices, viewVars, searchVars, cliVars,
                  chromaSettings, lookup, request, quizVars>>
outsideQuiz == <<mapVars, bridgeVars, idxVars, notices, viewVars, searchVars, cliVars,
                 configVars, storeVars>>

-----------------------------------------------------------------------------
(* Bounds of the model *)

\* most rows of one nearest-neighbor response
MaxRows == 3
\* most fragments (JSON documents, other text) a process writes to standard output
MaxOut == 2
\* largest document count the count script reports
MaxDocs == 1
\* most indexing operations (and count refreshes) in flight at once
MaxOps == 2
\* most searches in flight at once
MaxSearches == 2
\* longest text typed into the search field, in characters
MaxQueryLen == 2
\* most characters of a document past the excerpt budget
MaxOver == 2
\* latest reading of the clock (Date.now())
MaxTime == 1
\* longest text typed into a number field of the settings tab, in characters
MaxTyped == 1
\* most questions of a quiz
MaxQuestions == 3
\* most options of a question
MaxOptions == 2

-----------------------------------------------------------------------------
(* Optional values and strings *)

None == <<>>
Some(x) == <<x>>
IsSome(o) == Len(o) = 1
Val(o) == o[1]

Str1(c) == <<c>>
EmptyStr == <<>>

\* every string over alphabet A of length at most n
StringsUpTo(A, n) == UNION {[1..k -> A] : k \in 0..n}

\* every sequence over S of length at most n
SeqsUpTo(S, n) == UNION {[1..k -> S] : k \in 0..n}

-----------------------------------------------------------------------------
(* Each part of the plugin is studied under a specification of its own; the *)
(* variables of the other parts then stay in the state defined here.        *)

\* the slots of the indexing operations in flight
Ops == 1..MaxOps

\* an operation slot with nothing in flight
IdleOp == [pc |-> "idle", kind |-> "none", clearSt |-> "none", indexSt |-> "none",
           countSt |-> "none", count |-> None]

MapperIdle ==
    /\ mOut = <<>>
    /\ mKept = <<>>
    /\ mDone = FALSE

\* the mapper before any input
MapperUnused ==
    /\ mResults = [documents |-> <<>>, metadatas |-> <<>>, distances |-> <<>>]
    /\ mCurrent = EmptyStr
    /\ MapperIdle

BridgeUnused ==
    /\ bVariant = "runPythonScript"
    /\ bLaunchFails = FALSE
    /\ bCode = Some(0)
    /\ bStdout = <<>>
    /\ bErrored = FALSE
    /\ bClosed = FALSE
    /\ bOutcome = None

\* DEFAULT_SETTINGS of main.ts (pythonPath and foldersToIndex play no part here)
DefaultPort == 8000
DefaultMaxResults == 10
DEFAULT_SETTINGS ==
    [chromaHost |-> "localhost", chromaPort |-> DefaultPort, chromaCollectionName |-> "notes",
     searchMaxResults |-> DefaultMaxResults, totalDocuments |-> 0, lastIndexedDate |-> 0]

IndexUnused ==
    /\ ops = [o \in Ops |-> IdleOp]
    /\ settings = DEFAULT_SETTINGS

\* onload: the ChromaDBSettings object built from the plugin's settings, which
\* the service keeps
onloadChromaSettings(loaded) ==
    [host |-> loaded.chromaHost, port |-> loaded.chromaPort,
     collectionName |-> loaded.chromaCollectionName,
     searchMaxResults |-> loaded.searchMaxResults]

\* no search of the configuration study in flight
IdleLookup == [pc |-> "idle", configured |-> DEFAULT_SETTINGS]

ConfigUnused ==
    /\ chromaSettings = onloadChromaSettings(DEFAULT_SETTINGS)
    /\ lookup = IdleLookup
    /\ request = None

\* the collections of the vector database
CollectionNames == {"notes", "drafts"}

\* no call of the service in flight
IdleCall == [pc |-> "idle", args |-> <<>>]

StoreUnused ==
    /\ collections = [c \in CollectionNames |-> 0]
    /\ call = IdleCall
    /\ callLog = <<>>

\* the QuizEngine as constructed over a loaded quiz (the correctAnswer of each
\* question): no current quiz, the welcome screen visible
NewQuizEngine(questions) ==
    [quizzes |-> questions, currentQuiz |-> None, currentQuestionIndex |-> 0, score |-> 0,
     selectedAnswer |-> None, screen |-> "welcome"]

\* the embedded quiz: one question, its correctAnswer is option 1
knowledgeVaultQuiz == <<1>>

QuizUnused ==
    /\ quiz = NewQuizEngine(knowledgeVaultQuiz)
    /\ answered = <<>>

\* the slots of the searches in flight
Searches == 1..MaxSearches

\* a search slot with nothing in flight
IdleSearch == [pc |-> "idle", kind |-> "none", path |-> EmptyStr]

\* the view as constructed: contextItems = [], isLoading = false
ViewUnused ==
    /\ contextItems = <<>>
    /\ isLoading = FALSE

\* no search in flight: nothing started, nothing overtaken
NoOverlap == [order |-> <<>>, overtaken |-> {}]

SearchUnused ==
    /\ searches = [s \in Searches |-> IdleSearch]
    /\ startOrder = NoOverlap

\* a slot of the command-line variant with nothing in flight
IdleCli == [pc |-> "idle", proc |-> "none", code |-> None, callbackCalled |-> FALSE,
            timer |-> "none", stopped |-> FALSE]

CliUnused ==
    /\ cli = [s \in Searches |-> IdleCli]
    /\ currentExecProcess = None
    /\ currentTimeoutId = None

-----------------------------------------------------------------------------
(* Result Mapper: ChromaDBService.processChromaResults *)

\* path.replace(/\\/g, '/') on one character
SlashChar(c) == IF c = "\\" THEN "/" ELSE c

\* toLowerCase on one character of the model's alphabet
LowerChar(c) == IF c = "A" THEN "a" ELSE IF c = "B" THEN "b" ELSE c

\* a mutant of normalizeNotePath: the case is kept
normalizeNotePathKeepCase(p) ==
    IF IsSome(p) THEN Some([i \in 1..Len(Val(p)) |-> SlashChar(Val(p)[i])]) ELSE None

\* path?.replace(/\\/g, '/').toLowerCase(): undefined stays undefined
normalizeNotePath(p) ==
    IF IsSome(p)
    THEN Some([i \in 1..Len(Val(p)) |-> LowerChar(SlashChar(Val(p)[i]))])
    ELSE None

\* metadatas[i] || {} : a missing record reads as one with no field
EmptyMeta == [filename |-> None, heading |-> None, relative_path |-> None]
MetaAt(metadatas, i) ==
    IF i <= Len(metadatas) /\ IsSome(metadatas[i]) THEN Val(metadatas[i]) ELSE EmptyMeta

\* distances[i] || 1, in thousandths: a missing distance and a distance of 0 read as 1
DistanceAt(distances, i) ==
    IF i <= Len(distances) /\ IsSome(distances[i]) /\ Val(distances[i]) # 0
    THEN Val(distances[i]) ELSE 1000

\* the position of the first occurrence of pat in s, 0 when there is none
FirstIndexOf(s, pat) ==
    LET hits == {k \in 1..(Len(s) - Len(pat) + 1) : SubSeq(s, k, k + Len(pat) - 1) = pat}
    IN IF hits = {} THEN 0 ELSE CHOOSE k \in hits : \A j \in hits : k <= j

DotMd == <<".", "m", "d">>
Unknown == <<"U", "n", "k", "n", "o", "w", "n">>

\* a mutant of the title: no default for a missing or empty name
NoteTitleNoDefault(meta) ==
    IF ~IsSome(meta.filename) THEN EmptyStr
    ELSE LET f == Val(meta.filename)
             k == FirstIndexOf(f, DotMd)
         IN IF k = 0 THEN f ELSE SubSeq(f, 1, k - 1) \o SubSeq(f, k + 3, Len(f))

\* metadata.filename?.replace('.md', '') || 'Unknown'
NoteTitle(meta) ==
    IF ~IsSome(meta.filename) THEN Unknown
    ELSE LET f == Val(meta.filename)
             k == FirstIndexOf(f, DotMd)
             r == IF k = 0 THEN f ELSE SubSeq(f, 1, k - 1) \o SubSeq(f, k + 3, Len(f))
         IN IF r = EmptyStr THEN Unknown ELSE r

\* a mutant of the excerpt: the whole document
ExcerptWhole(document) == document

\* the excerpt budget of document.substring(0, 240)
ExcerptLen == 240
Excerpt(document) == SubSeq(document, 1, IF Len(document) < ExcerptLen THEN Len(document) ELSE ExcerptLen)

\* metadata.heading ? `#${metadata.heading}` : ''
Anchor(meta) ==
    IF IsSome(meta.heading) /\ Val(meta.heading) # EmptyStr
    THEN <<"#">> \o Val(meta.heading) ELSE EmptyStr

\* distance.toFixed(2), as the number of hundredths shown, from thousandths
ToFixed2(d) == (d + 5) \div 10

\* the self-match test of the loop body
IsSelfMatch(meta, currentNotePath) ==
    normalizeNotePath(meta.relative_path) = normalizeNotePath(Some(currentNotePath))

ContextItemOf(document, meta, distance) ==
    [type |-> "reference", note |-> NoteTitle(meta), anchor |-> Anchor(meta),
     excerpt |-> Excerpt(document), reason |-> ToFixed2(distance)]

\* the for loop from row i on: the pushed rows, as <<row index, item>> pairs
RECURSIVE MapLoop(_, _, _, _)
MapLoop(results, currentNotePath, i, acc) ==
    IF i > Len(results.documents) THEN acc
    ELSE LET meta == MetaAt(results.metadatas, i)
             distance == DistanceAt(results.distances, i)
         IN IF IsSelfMatch(meta, currentNotePath)
            THEN MapLoop(results, currentNotePath, i + 1, acc)
            ELSE MapLoop(results, currentNotePath, i + 1,
                         Append(acc, <<i, ContextItemOf(results.documents[i], meta, distance)>>))

\* the rows processChromaResults pushes, with the index of the row each is built from
MappedRows(results, currentNotePath) ==
    IF Len(results.documents) = 0 THEN <<>>
    ELSE MapLoop(results, currentNotePath, 1, <<>>)

\* a mutant of processChromaResults: the items are returned last row first
processChromaResultsReversed(results, currentNotePath) ==
    LET m == MappedRows(results, currentNotePath) IN [k \in 1..Len(m) |-> m[Len(m) + 1 - k][2]]

processChromaResults(results, currentNotePath) ==
    LET m == MappedRows(results, currentNotePath) IN [k \in 1..Len(m) |-> m[k][2]]

-----------------------------------------------------------------------------
(* The subprocess bridge: what the 'close' and 'error' handlers of          *)
(* runPythonScript, runPythonScriptWithArgs and runPythonQuery make of a    *)
(* process.                                                                 *)

\* Standard output is the concatenation of what the script wrote: JSON documents
\* and other text (progress lines, a traceback).
Text == [json |-> "text", success |-> None, error |-> None, embeddings |-> None,
         results |-> None, total_documents |-> None]
JsonNull == [json |-> "null", success |-> None, error |-> None, embeddings |-> None,
             results |-> None, total_documents |-> None]
JsonObject(success, embeddings, results, total) ==
    [json |-> "object", success |-> success, error |-> None, embeddings |-> embeddings,
     results |-> results, total_documents |-> total]
\* a document with an error field
WithError(doc, message) == [doc EXCEPT !.error = Some(message)]

\* the two envelopes of the protocol without a payload, and an object without the flag
OkDoc == JsonObject(Some(TRUE), None, None, None)
FailDoc == JsonObject(Some(FALSE), None, None, None)
NoFlagDoc == JsonObject(None, None, None, None)

\* JSON.parse(stdout): a value when the text is exactly one JSON document,
\* undefined here when it throws a SyntaxError
JsonParse(stdout) ==
    IF Len(stdout) = 1 /\ stdout[1].json # "text" THEN Some(stdout[1]) ELSE None

\* a promise's outcome
Resolved(v) == [kind |-> "resolve", error |-> "", value |-> Some(v)]
Rejected(e) == [kind |-> "reject", error |-> e, value |-> None]
\* the handler threw: the promise was neither resolved nor rejected
Thrown == [kind |-> "throw", error |-> "SyntaxError", value |-> None]

\* new Error(response.error): the message is the error field of the document; the
\* empty message of a document without one is named OperationError here
ErrorOf(doc) == IF IsSome(doc.error) THEN Val(doc.error) ELSE "OperationError"

\* a mutant of the try block: a document is a result whatever its success flag
ParseAndResolve(stdout) ==
    IF IsSome(JsonParse(stdout)) /\ Val(JsonParse(stdout)).json # "null"
    THEN Resolved(Val(JsonParse(stdout))) ELSE Rejected("ParseError")

\* the try block of the close handlers: parse, then look at the success flag;
\* reading .success of null throws a TypeError, which the catch turns into the
\* same rejection as a SyntaxError
ParseAndSettle(stdout) ==
    LET parsed == JsonParse(stdout)
    IN IF ~IsSome(parsed) THEN Rejected("ParseError")
       ELSE IF Val(parsed).json = "null" THEN Rejected("ParseError")
       ELSE IF Val(parsed).success # Some(TRUE) THEN Rejected(ErrorOf(Val(parsed)))
       ELSE Resolved(Val(parsed))

\* python.on('close') of runPythonScript; code is undefined (None) for a
\* process ended by a signal
runPythonScriptClose(code, stdout) ==
    IF code # Some(0) THEN Rejected("ProcessError") ELSE ParseAndSettle(stdout)

\* python.on('close') of runPythonScriptWithArgs
runPythonScriptWithArgsClose(code, stdout) ==
    IF code # Some(0) THEN Rejected("ProcessError") ELSE ParseAndSettle(stdout)

\* python.on('close') of the older runPythonQuery: console.dir(JSON.parse(stdout))
\* runs first, outside the try block
runPythonQueryClose(code, stdout) ==
    IF ~IsSome(JsonParse(stdout)) THEN Thrown
    ELSE IF code # Some(0) THEN Rejected("ProcessError")
    ELSE LET r == ParseAndSettle(stdout)
         IN IF r.kind = "resolve" THEN Resolved(Val(r.value).results) ELSE r

\* python.on('error') of the three
SpawnError == Rejected("LaunchError")

CloseHandler(variant, code, stdout) ==
    CASE variant = "runPythonScript" -> runPythonScriptClose(code, stdout)
      [] variant = "runPythonScriptWithArgs" -> runPythonScriptWithArgsClose(code, stdout)
      [] variant = "runPythonQuery" -> runPythonQueryClose(code, stdout)

\* a mutant of the promise: a later resolve or reject replaces the outcome
SettleAgain(outcome, new) ==
    IF new.kind = "throw" THEN outcome ELSE Some(new)

\* resolve and reject act on a pending promise only
Settle(outcome, new) ==
    IF IsSome(outcome) \/ new.kind = "throw" THEN outcome ELSE Some(new)

Variants == {"runPythonScript", "runPythonScriptWithArgs", "runPythonQuery"}
\* exit codes of a closed process: ended by a signal, 0, nonzero
CloseCodes == {None, Some(0), Some(1)}
\* the close code of a process that could not be spawned (-ENOENT)
LaunchFailCode == Some(0 - 2)

CountDocs == {JsonObject(Some(TRUE), None, None, t) : t \in {None} \cup {Some(n) : n \in 0..MaxDocs}}
\* the error message a script reports
Refused == "collection not found"
BridgeDocs ==
    {OkDoc, FailDoc, NoFlagDoc, JsonNull, WithError(FailDoc, Refused), WithError(OkDoc, Refused)}
    \cup CountDocs
Stdouts(docs) == SeqsUpTo(docs \cup {Text}, MaxOut)

\* a spawned process: one that cannot be launched writes nothing
InitBridge ==
    /\ QuizUnused
    /\ bVariant \in Variants
    /\ bLaunchFails \in BOOLEAN
    /\ bCode \in (IF bLaunchFails THEN {LaunchFailCode} ELSE CloseCodes)
    /\ bStdout \in (IF bLaunchFails THEN {<<>>} ELSE Stdouts(BridgeDocs))
    /\ bErrored = FALSE
    /\ bClosed = FALSE
    /\ bOutcome = None
    /\ MapperUnused
    /\ IndexUnused
    /\ notices = <<>>
    /\ ViewUnused
    /\ SearchUnused
    /\ CliUnused
    /\ ConfigUnused
    /\ StoreUnused

\* the 'error' event of a process that could not be launched; the two handlers
\* are registered apart and run in the order in which the events are emitted
BridgeError ==
    /\ bLaunchFails /\ ~bErrored
    /\ bErrored' = TRUE
    /\ bOutcome' = Settle(bOutcome, SpawnError)
    /\ UNCHANGED <<bVariant, bLaunchFails, bCode, bStdout, bClosed>>
    /\ UNCHANGED outsideBridge

\* the 'close' event
BridgeClose ==
    /\ ~bClosed
    /\ bClosed' = TRUE
    /\ bOutcome' = Settle(bOutcome, CloseHandler(bVariant, bCode, bStdout))
    /\ UNCHANGED <<bVariant, bLaunchFails, bCode, bStdout, bErrored>>
    /\ UNCHANGED outsideBridge

NextBridge == BridgeError \/ BridgeClose

SpecBridge == InitBridge /\ [][NextBridge]_vars

\* C3: a process that closed with a nonzero exit code makes its invocation fail,
\* whatever standard output holds; no payload is returned.
C3_NonzeroExitFails ==
    (bClosed /\ bCode # Some(0)) => (IsSome(bOutcome) /\ Val(bOutcome).kind = "reject")

\* the one document standard output holds
StdoutDoc == Val(JsonParse(bStdout))

\* C15: a process that exits with code 0 and writes one document whose success
\* flag is false makes the invocation fail with the error field of the document
\* and without a payload; a result is returned only for a document whose
\* success flag is true.
C15_SuccessFlagDecides ==
    (bClosed /\ ~bLaunchFails /\ bCode = Some(0) /\ IsSome(JsonParse(bStdout))) =>
        /\ (StdoutDoc.success = Some(FALSE) /\ IsSome(StdoutDoc.error)) =>
               bOutcome = Some(Rejected(Val(StdoutDoc.error)))
        /\ StdoutDoc.success = Some(FALSE) =>
               (IsSome(bOutcome) /\ Val(bOutcome).kind = "reject" /\ Val(bOutcome).value = None)
        /\ (IsSome(bOutcome) /\ Val(bOutcome).kind = "resolve") => StdoutDoc.success = Some(TRUE)

\* a closed process that wrote a failure document with an error message
C15_Witness ==
    /\ bClosed /\ bCode = Some(0)
    /\ bStdout = <<WithError(FailDoc, Refused)>>
    /\ bOutcome = Some(Rejected(Refused))

\* the two invocations of services/ChromaDBService.ts
ServiceVariants == {"runPythonScript", "runPythonScriptWithArgs"}

\* C29: an invocation of runPythonScript or runPythonScriptWithArgs has one
\* outcome, a result or an error, as soon as one of its 'error' and 'close'
\* events was handled; the event handled second leaves the outcome as the first
\* set it, and a process that could not be launched never yields a result.
C29_OneOutcome ==
    /\ [](bVariant \in ServiceVariants =>
            /\ (bErrored \/ bClosed) =>
                   (IsSome(bOutcome) /\ Val(bOutcome).kind \in {"resolve", "reject"})
            /\ (bLaunchFails /\ IsSome(bOutcome)) => Val(bOutcome).kind = "reject")
    /\ [][(bVariant \in ServiceVariants /\ IsSome(bOutcome)) => bOutcome' = bOutcome]_vars

\* both events of a process that could not be launched were handled, the
\* 'error' event first: the invocation failed with the launch error
C29_Witness ==
    /\ bVariant \in ServiceVariants
    /\ bLaunchFails /\ bErrored /\ bClosed
    /\ bOutcome = Some(SpawnError)

\* C27: once the process of an invocation has closed the invocation is settled,
\* resolved or rejected, whatever the exit code and standard output are.
C27_ClosedProcessSettles == bClosed => IsSome(bOutcome)

-----------------------------------------------------------------------------
(* The indexing workflows of main.ts over ContextFetcherService and         *)
(* ChromaDBService: reindex all, index the current note, index a folder,    *)
(* and the count refresh of the Refresh button.  One step is one run of the *)
(* event loop: a click, or the end of a process with every continuation     *)
(* that follows it up to the next await.                                    *)

IndexingKinds == {"reindex", "note", "folder"}

Notice(o, text, error) == [op |-> o, text |-> text, error |-> error]

\* what an invocation of the bridge comes to: the process could not be launched,
\* or it closed with a code and an output
ArgsOutcomes(docs) ==
    {SpawnError} \cup
    {runPythonScriptWithArgsClose(code, out) : code \in CloseCodes, out \in Stdouts(docs)}

\* the status a step is left in by the outcome of its process
StatusOf(outcome) == IF outcome.kind = "resolve" THEN "ok" ELSE "failed"

\* a mutant of clearAllIndexes: the catch block does not rethrow
clearAllIndexesSwallow(outcome) ==
    IF outcome.kind = "resolve" THEN outcome ELSE Resolved(OkDoc)

\* ContextFetcherService.clearAllIndexes: the catch block shows a notice and
\* rethrows, so the caller sees the outcome of the bridge
clearAllIndexes(outcome) == outcome

\* a mutant of the index step: the catch block does not rethrow
indexStepSwallow(outcome) ==
    IF outcome.kind = "resolve" THEN outcome ELSE Resolved(OkDoc)

\* ContextFetcherService.indexAllFolders, indexCurrentFile, indexFolder: the same
indexStepOutcome(outcome) == outcome

\* ChromaDBService.getDocumentsCount: response.total_documents || 0
chromaGetDocumentsCount(outcome) ==
    IF outcome.kind = "resolve"
    THEN LET t == Val(outcome.value).total_documents
         IN Resolved(IF IsSome(t) THEN Val(t) ELSE 0)
    ELSE outcome

\* ContextFetcherService.getDocumentsCount: the count, or 0 when the bridge failed
getDocumentsCount(outcome) ==
    LET r == chromaGetDocumentsCount(outcome)
    IN IF r.kind = "resolve" THEN Val(r.value) ELSE 0

\* Date.now(): not before the stamp of an earlier write
ClockReadings == 1..MaxTime
Now(last) == {t \in ClockReadings : t >= last}

\* the settings as loaded: the defaults, or what an earlier session saved
InitIndex ==
    /\ QuizUnused
    /\ ops = [o \in Ops |-> IdleOp]
    /\ \E total \in 0..MaxDocs, stamp \in 0..MaxTime :
          settings = [DEFAULT_SETTINGS EXCEPT !.totalDocuments = total,
                                              !.lastIndexedDate = stamp]
    /\ notices = <<>>
    /\ MapperUnused
    /\ BridgeUnused
    /\ ViewUnused
    /\ SearchUnused
    /\ CliUnused
    /\ ConfigUnused
    /\ StoreUnused

\* reindexAllNotes up to its first await: the clear process is spawned
StartReindex(o) ==
    /\ ops[o].pc = "idle"
    /\ ops' = [ops EXCEPT ![o] = [IdleOp EXCEPT !.pc = "clearing", !.kind = "reindex",
                                                 !.clearSt = "running"]]
    /\ notices' = <<Notice(o, "Starting full reindex...", ""),
                    Notice(o, "Clearing all indexes...", "")>>
    /\ UNCHANGED <<settings, outsideIndex>>

\* indexCurrentNote: without a markdown view or a file only a notice is shown
StartIndexNote(o, hasFile) ==
    /\ ops[o].pc = "idle"
    /\ IF hasFile
       THEN /\ ops' = [ops EXCEPT ![o] = [IdleOp EXCEPT !.pc = "indexing", !.kind = "note",
                                                        !.indexSt = "running"]]
            /\ notices' = <<Notice(o, "Indexing file...", "")>>
       ELSE /\ ops' = ops
            /\ notices' = <<Notice(o, "No active note to index.", "")>>
    /\ UNCHANGED <<settings, outsideIndex>>

\* the Index Folder button: without an active file or a folder only a notice
StartIndexFolder(o, hasFolder) ==
    /\ ops[o].pc = "idle"
    /\ IF hasFolder
       THEN /\ ops' = [ops EXCEPT ![o] = [IdleOp EXCEPT !.pc = "indexing", !.kind = "folder",
                                                        !.indexSt = "running"]]
            /\ notices' = <<Notice(o, "Indexing folder...", "")>>
       ELSE /\ ops' = ops
            /\ notices' = <<Notice(o, "No folder to index.", "")>>
    /\ UNCHANGED <<settings, outsideIndex>>

\* the Refresh button: updateTotalDocumentsSetting alone
StartRefresh(o) ==
    /\ ops[o].pc = "idle"
    /\ ops' = [ops EXCEPT ![o] = [IdleOp EXCEPT !.pc = "counting", !.kind = "refresh",
                                                 !.countSt = "running"]]
    /\ notices' = <<>>
    /\ UNCHANGED <<settings, outsideIndex>>

\* the clear process ended: clearAllIndexes returns or throws into reindexAllNotes,
\* which goes on to indexAllFolders or to its catch block
ClearDone(o, outcome) ==
    /\ ops[o].pc = "clearing"
    /\ IF clearAllIndexes(outcome).kind = "resolve"
       THEN /\ ops' = [ops EXCEPT ![o].pc = "indexing", ![o].clearSt = StatusOf(outcome),
                                  ![o].indexSt = "running"]
            /\ notices' = (IF outcome.kind = "resolve"
                           THEN <<Notice(o, "All indexes cleared.", "")>>
                           ELSE <<Notice(o, "Error clearing indexes", outcome.error)>>)
                          \o <<Notice(o, "Indexing all configured folders...", "")>>
       ELSE /\ ops' = [ops EXCEPT ![o] = IdleOp]
            /\ notices' = <<Notice(o, "Error clearing indexes", outcome.error),
                            Notice(o, "Reindex failed", outcome.error)>>
    /\ UNCHANGED <<settings, outsideIndex>>

\* the index process ended: on success updateTotalDocumentsSetting spawns the
\* count process, on failure the caller's catch block ends the operation
IndexDone(o, outcome) ==
    /\ ops[o].pc = "indexing"
    /\ IF indexStepOutcome(outcome).kind = "resolve"
       THEN /\ ops' = [ops EXCEPT ![o].pc = "counting", ![o].indexSt = StatusOf(outcome),
                                  ![o].countSt = "running"]
            /\ notices' = <<Notice(o, "Indexing complete.", "")>>
       ELSE /\ ops' = [ops EXCEPT ![o] = IdleOp]
            /\ notices' = <<Notice(o, "Error indexing", outcome.error),
                            Notice(o, "Indexing failed", outcome.error)>>
    /\ UNCHANGED <<settings, outsideIndex>>

\* the count process ended: updateTotalDocumentsSetting stores what
\* getDocumentsCount returned and the time, and starts to save the settings
CountDone(o, outcome, t) ==
    /\ ops[o].pc = "counting"
    /\ t \in Now(settings.lastIndexedDate)
    /\ LET count == getDocumentsCount(outcome)
       IN /\ ops' = [ops EXCEPT ![o].pc = "saving", ![o].countSt = StatusOf(outcome),
                                ![o].count = Some(count)]
          /\ settings' = [settings EXCEPT !.totalDocuments = count, !.lastIndexedDate = t]
    /\ notices' = IF outcome.kind = "resolve" THEN <<>>
                  ELSE <<Notice(o, "Error getting document count", outcome.error)>>
    /\ UNCHANGED outsideIndex

\* the settings are saved: the labels of the view are refreshed and the
\* operation ends with its closing notice
SaveDone(o) ==
    /\ ops[o].pc = "saving"
    /\ ops' = [ops EXCEPT ![o] = IdleOp]
    /\ notices' = CASE ops[o].kind = "reindex" -> <<Notice(o, "Full reindex complete.", "")>>
                    [] ops[o].kind = "note" -> <<Notice(o, "Current note indexed successfully.", "")>>
                    [] OTHER -> <<>>
    /\ UNCHANGED <<settings, outsideIndex>>

\* the outcomes of a clear or index process, and of a count process
StepOutcomes == ArgsOutcomes({OkDoc, FailDoc, NoFlagDoc, JsonNull})
CountOutcomes == ArgsOutcomes(BridgeDocs)

Reindex == \E o \in Ops : StartReindex(o)
IndexNote == \E o \in Ops, hasFile \in BOOLEAN : StartIndexNote(o, hasFile)
IndexFolder == \E o \in Ops, hasFolder \in BOOLEAN : StartIndexFolder(o, hasFolder)
Refresh == \E o \in Ops : StartRefresh(o)
ClearEnds == \E o \in Ops, outcome \in StepOutcomes : ClearDone(o, outcome)
IndexEnds == \E o \in Ops, outcome \in StepOutcomes : IndexDone(o, outcome)
CountEnds == \E o \in Ops, outcome \in CountOutcomes, t \in ClockReadings : CountDone(o, outcome, t)
Saved == \E o \in Ops : SaveDone(o)

NextIndex ==
    \/ Reindex
    \/ IndexNote
    \/ IndexFolder
    \/ Refresh
    \/ ClearEnds
    \/ IndexEnds
    \/ CountEnds
    \/ Saved

SpecIndex == InitIndex /\ [][NextIndex]_vars

\* operation o showed a notice of a failure in the step just taken
FailureShown(o) == \E k \in 1..Len(notices') : notices'[k].op = o /\ notices'[k].error # ""

\* the count process of operation o wrote no JSON document: the step just taken
\* showed the parse error
CountParseError(o) ==
    \E k \in 1..Len(notices') : /\ notices'[k].op = o
                                   /\ notices'[k].text = "Error getting document count"
                                   /\ notices'[k].error = "ParseError"

\* C2: an invocation whose output is not one JSON document fails with a parse
\* error, and its caller receives no default in place of the result: here, no
\* document count.
C2_NoDefaultOnParseError ==
    [][\A o \in Ops : CountParseError(o) => ops'[o].count = None]_vars

\* C5: a failing subprocess of an indexing operation (clear, index or the count
\* refresh) leaves the persisted totalDocuments and lastIndexedDate as they were.
C5_FailureKeepsCache ==
    [][\A o \in Ops : (ops[o].kind \in IndexingKinds /\ FailureShown(o))
                          => settings' = settings]_vars

\* C28: lastIndexedDate changes only in the step in which the count of an
\* indexing operation (reindex all, note, folder) that went well is stored;
\* the count of the Refresh button and a failed step leave it as it is.
C28_DateOnlyAfterIndexing ==
    [][settings'.lastIndexedDate # settings.lastIndexedDate =>
           \E o \in Ops : /\ ops[o].kind \in IndexingKinds
                          /\ ops[o].pc = "counting" /\ ops'[o].pc = "saving"
                          /\ ~FailureShown(o)]_vars

\* C7: the index process of a reindex-all is started only after its clear process
\* ended well, and the count process of an indexing operation only after its
\* index process ended well.
C7_StepOrder ==
    \A o \in Ops :
        /\ (ops[o].kind = "reindex" /\ ops[o].indexSt # "none") => ops[o].clearSt = "ok"
        /\ (ops[o].kind \in IndexingKinds /\ ops[o].countSt # "none") => ops[o].indexSt = "ok"

\* a reindex-all whose count process runs, and a single-note one
C7_Witness ==
    \E o, q \in Ops :
        /\ ops[o].kind = "reindex" /\ ops[o].countSt = "running"
        /\ ops[q].kind = "note" /\ ops[q].countSt = "running"

\* the clear step of operation o failed in the step just taken
ClearFailed(o) ==
    /\ ops[o].pc = "clearing"
    /\ \E k \in 1..Len(notices') : /\ notices'[k].op = o
                                   /\ notices'[k].text = "Error clearing indexes"

\* C8: when the clear step of a reindex-all fails the operation ends there: no
\* index process and no count process is started, and the cached totalDocuments
\* and lastIndexedDate stay as they were.
C8_ClearFailureStops ==
    [][\A o \in Ops : ClearFailed(o) =>
            /\ ops'[o].pc = "idle"
            /\ ops'[o].indexSt = "none" /\ ops'[o].countSt = "none"
            /\ settings' = settings]_vars

\* a reindex-all just ended by the failure of its clear step, the cache holding a count
C8_Witness ==
    /\ \E k \in 1..Len(notices) : notices[k].text = "Reindex failed"
    /\ settings.totalDocuments > 0

-----------------------------------------------------------------------------
(* The Result Mapper on every response of the bounds whose rows differ in *)
(* their relative_path only.                                              *)

\* the path a/b in other letter cases and separator styles, another path, and
\* the empty path of a free-text search
PathVariants ==
    {<<x, sep, "b">> : x \in {"a", "A"}, sep \in {"/", "\\"}} \cup {<<"A", "\\", "B">>}
Paths == PathVariants \cup {EmptyStr, <<"b">>}

DocA == <<"d">>
FileA == <<"n", ".", "m", "d">>

\* the metadata of a row: missing, or with or without a relative_path
PathMetas ==
    {None} \cup {Some([filename |-> Some(FileA), heading |-> None, relative_path |-> rp]) :
                    rp \in {None} \cup {Some(p) : p \in Paths}}

\* the document of row i: each row has a text of its own
DocOf(i) == [j \in 1..i |-> "d"]

\* a response of n rows with the metadata ms
PathResponse(n, ms) ==
    [documents |-> [i \in 1..n |-> DocOf(i)], metadatas |-> ms,
     distances |-> [i \in 1..n |-> Some(250)]]

InitSelf ==
    /\ QuizUnused
    /\ \E n \in 0..MaxRows : \E ms \in [1..n -> PathMetas] : mResults = PathResponse(n, ms)
    /\ mCurrent \in Paths
    /\ MapperIdle
    /\ BridgeUnused
    /\ IndexUnused
    /\ notices = <<>>
    /\ ViewUnused
    /\ SearchUnused
    /\ CliUnused
    /\ ConfigUnused
    /\ StoreUnused

\* one call of processChromaResults(mResults, mCurrent)
ProcessResults ==
    /\ ~mDone
    /\ mOut' = processChromaResults(mResults, mCurrent)
    /\ mKept' = [k \in 1..Len(MappedRows(mResults, mCurrent)) |-> MappedRows(mResults, mCurrent)[k][1]]
    /\ mDone' = TRUE
    /\ UNCHANGED <<mResults, mCurrent>>
    /\ UNCHANGED outsideMapper

NextSelf == ProcessResults

SpecSelf == InitSelf /\ [][NextSelf]_vars

\* the normal form the claims speak of: backslashes to slashes, then lower case
NormPath(p) == [i \in 1..Len(p) |-> LowerChar(SlashChar(p[i]))]

\* row i of the response names the open note
RowIsOpenNote(i) ==
    /\ i <= Len(mResults.metadatas)
    /\ IsSome(mResults.metadatas[i])
    /\ IsSome(Val(mResults.metadatas[i]).relative_path)
    /\ NormPath(Val(Val(mResults.metadatas[i]).relative_path)) = NormPath(mCurrent)

\* C1: no returned ContextItem is built from a row whose relative_path equals
\* the current-note path once both are normalized (separators, letter case).
C1_NoSelfMatch ==
    mDone => \A i \in 1..Len(mResults.documents) :
                RowIsOpenNote(i) => \A k \in 1..Len(mKept) : mKept[k] # i

\* a response with the open note in another case and separator style, and a kept row
C1_Witness ==
    /\ mDone
    /\ \E i \in 1..Len(mResults.documents) :
          /\ RowIsOpenNote(i)
          /\ Val(Val(mResults.metadatas[i]).relative_path) # mCurrent
    /\ Len(mOut) >= 1

-----------------------------------------------------------------------------
(* The search workflows: ContextFetcherService.searchQuery for free text and *)
(* fetchContext for the open note, over ChromaDBService.fetchContextForNote, *)
(* searchSimilarContent and generateEmbedding, with the view's Search, Use   *)
(* Current Note and Clear buttons.                                           *)

\* the open note of the note workflow
NotePath == <<"a", "/", "b">>

\* the rows chroma_query.py reports: none, the open note under another spelling
\* of its path, another note, or both
RowOf(p, document) ==
    [document |-> document,
     metadata |-> Some([filename |-> Some(FileA), heading |-> None, relative_path |-> Some(p)]),
     distance |-> Some(250)]
SelfRow == RowOf(<<"A", "\\", "b">>, <<"s">>)
OtherNoteRow == RowOf(<<"b">>, DocA)
QueryRows == {<<>>, <<SelfRow>>, <<OtherNoteRow>>, <<SelfRow, OtherNoteRow>>}

\* what generate_embedding.py and chroma_query.py write as their document
EmbedDocs ==
    {FailDoc} \cup {JsonObject(Some(TRUE), e, None, None) : e \in {None, Some(<<>>), Some(<<1>>)}}
QueryDocs ==
    {FailDoc} \cup {JsonObject(Some(TRUE), None, r, None) : r \in {None} \cup {Some(rs) : rs \in QueryRows}}

\* what an invocation of runPythonScript comes to
ScriptOutcomes(docs) ==
    {SpawnError} \cup
    {runPythonScriptClose(code, out) : code \in CloseCodes, out \in Stdouts(docs)}
EmbedOutcomes == ScriptOutcomes(EmbedDocs)
QueryOutcomes == ScriptOutcomes(QueryDocs)

\* a mutant of generateEmbedding: an empty list of embeddings is accepted, and
\* its first element is undefined
generateEmbeddingUnchecked(outcome) ==
    IF outcome.kind # "resolve" THEN outcome
    ELSE LET e == Val(outcome.value).embeddings
         IN IF IsSome(e) THEN Resolved(IF Len(Val(e)) > 0 THEN Val(e)[1] ELSE 0)
            ELSE Rejected("EmbeddingError")

\* generateEmbedding: the first embedding of a non-empty list, or an Error
generateEmbedding(outcome) ==
    IF outcome.kind # "resolve" THEN outcome
    ELSE LET e == Val(outcome.value).embeddings
         IN IF IsSome(e) /\ Len(Val(e)) > 0 THEN Resolved(Val(e)[1])
            ELSE Rejected("EmbeddingError")

\* searchSimilarContent after the query: response.results split into the lists
\* the mapper reads; results.map on a missing list throws a TypeError
searchSimilarContent(outcome) ==
    IF outcome.kind # "resolve" THEN outcome
    ELSE LET r == Val(outcome.value).results
         IN IF ~IsSome(r) THEN Rejected("TypeError")
            ELSE Resolved([documents |-> [i \in 1..Len(Val(r)) |-> Val(r)[i].document],
                           metadatas |-> [i \in 1..Len(Val(r)) |-> Val(r)[i].metadata],
                           distances |-> [i \in 1..Len(Val(r)) |-> Val(r)[i].distance]])

\* a mutant of the finally block: setLoading(false) at the end of the try block
\* only, so that a failure leaves the flag as it is
setLoadingAfterTryOnly(failed, loading) == IF failed THEN loading ELSE FALSE

\* finally { setLoading(false) } of fetchContext and searchQuery
setLoadingFinally(failed, loading) == FALSE

\* the notes that may be open
OpenNotes == {NotePath, <<"b">>}

InitSearch ==
    /\ QuizUnused
    /\ searches = [s \in Searches |-> IdleSearch]
    /\ startOrder = NoOverlap
    /\ contextItems = <<>>
    /\ isLoading = FALSE
    /\ notices = <<>>
    /\ MapperUnused
    /\ BridgeUnused
    /\ IndexUnused
    /\ CliUnused
    /\ ConfigUnused
    /\ StoreUnused

\* what may be typed into the search field: blanks and letters
QueryTexts == StringsUpTo({" ", "q"}, MaxQueryLen)

\* a mutant of trim: the text is taken as typed
TrimNothing(t) == t

\* searchInput.value.trim(): the text without its leading and trailing blanks
Trim(t) ==
    LET inked == {i \in 1..Len(t) : t[i] # " "}
    IN IF inked = {} THEN EmptyStr
       ELSE SubSeq(t, CHOOSE i \in inked : \A j \in inked : i <= j,
                      CHOOSE i \in inked : \A j \in inked : i >= j)

\* the Search button: a query that is empty after trimming shows a notice;
\* otherwise searchQuery sets the flag and runs up to the spawn of
\* generate_embedding.py
SearchClick(s, input) ==
    /\ searches[s].pc = "idle"
    /\ IF Trim(input) # EmptyStr
       THEN /\ searches' = [searches EXCEPT ![s] = [pc |-> "embedding", kind |-> "query",
                                                    path |-> EmptyStr]]
            /\ isLoading' = TRUE
            /\ notices' = <<>>
       ELSE /\ notices' = <<Notice(s, "Please enter a search query.", "")>>
            /\ UNCHANGED <<searches, isLoading>>
    /\ UNCHANGED <<contextItems, outsideSearch>>

\* the Use Current Note button: fetchContextForCurrentNote sets the flag, and
\* fetchContext runs up to the read of the note; without a note only a notice
UseCurrentNoteClick(s, file) ==
    /\ searches[s].pc = "idle"
    /\ IF IsSome(file)
       THEN /\ searches' = [searches EXCEPT ![s] = [pc |-> "reading", kind |-> "note",
                                                    path |-> Val(file)]]
            /\ isLoading' = TRUE
            /\ notices' = <<>>
       ELSE /\ notices' = <<Notice(s, "No file in active view", "")>>
            /\ UNCHANGED <<searches, isLoading>>
    /\ UNCHANGED <<contextItems, outsideSearch>>

\* a step of search s failed.  searchQuery: its catch block shows the notice and
\* the list is not touched.  fetchContext: fetchContextForNote catches the error
\* and returns [], which fetchContext hands to updateContext.
SearchFails(s, error) ==
    /\ searches' = [searches EXCEPT ![s] = IdleSearch]
    /\ IF searches[s].kind = "query"
       THEN /\ notices' = <<Notice(s, "Search failed", error)>>
            /\ contextItems' = contextItems
            /\ isLoading' = setLoadingFinally(TRUE, isLoading)
       ELSE /\ notices' = <<Notice(s, "Error fetching context", error)>>
            /\ contextItems' = <<>>
            /\ isLoading' = setLoadingFinally(FALSE, isLoading)

\* app.vault.read settled: the embedding process is spawned, or the read failed
ReadDone(s, ok) ==
    /\ searches[s].pc = "reading"
    /\ IF ok
       THEN /\ searches' = [searches EXCEPT ![s].pc = "embedding"]
            /\ notices' = <<>>
            /\ UNCHANGED <<contextItems, isLoading>>
       ELSE SearchFails(s, "ReadError")
    /\ UNCHANGED outsideSearch

\* generate_embedding.py ended: chroma_query.py is spawned, or the search failed
EmbedDone(s, outcome) ==
    /\ searches[s].pc = "embedding"
    /\ IF generateEmbedding(outcome).kind = "resolve"
       THEN /\ searches' = [searches EXCEPT ![s].pc = "querying"]
            /\ notices' = <<>>
            /\ UNCHANGED <<contextItems, isLoading>>
       ELSE SearchFails(s, generateEmbedding(outcome).error)
    /\ UNCHANGED outsideSearch

\* chroma_query.py ended: the rows are mapped and shown, or the search failed
QueryDone(s, outcome) ==
    /\ searches[s].pc = "querying"
    /\ LET r == searchSimilarContent(outcome)
       IN IF r.kind = "resolve"
          THEN /\ searches' = [searches EXCEPT ![s] = IdleSearch]
               /\ contextItems' = processChromaResults(Val(r.value), searches[s].path)
               /\ isLoading' = setLoadingFinally(FALSE, isLoading)
               /\ notices' = <<>>
          ELSE SearchFails(s, r.error)
    /\ UNCHANGED outsideSearch

\* the Clear button: updateContext([])
ClearClick ==
    /\ contextItems' = <<>>
    /\ notices' = <<>>
    /\ UNCHANGED <<searches, isLoading, outsideSearch>>

\* the steps of the searches, taken without a record of the order of the starts
Search ==
    \E s \in Searches, input \in QueryTexts : SearchClick(s, input) /\ UNCHANGED startOrder
UseCurrentNote ==
    \E s \in Searches, file \in {None} \cup {Some(p) : p \in OpenNotes} :
        UseCurrentNoteClick(s, file) /\ UNCHANGED startOrder
NoteRead == \E s \in Searches, ok \in BOOLEAN : ReadDone(s, ok) /\ UNCHANGED startOrder
EmbedEnds ==
    \E s \in Searches, outcome \in EmbedOutcomes : EmbedDone(s, outcome) /\ UNCHANGED startOrder
QueryEnds ==
    \E s \in Searches, outcome \in QueryOutcomes : QueryDone(s, outcome) /\ UNCHANGED startOrder
ClearList == ClearClick /\ UNCHANGED startOrder

NextSearch ==
    \/ Search
    \/ UseCurrentNote
    \/ NoteRead
    \/ EmbedEnds
    \/ QueryEnds
    \/ ClearList

SpecSearch == InitSearch /\ [][NextSearch]_vars

\* search s showed a notice of a failure in the step just taken
SearchFailed(s) == \E k \in 1..Len(notices') : notices'[k].op = s /\ notices'[k].error # ""

\* C4: the step that starts a search workflow leaves the loading flag true, the
\* embedding request is issued in that step or after it, and the step that ends
\* the workflow, by the mapping of the result or by the failure of a step,
\* leaves the flag false.
C4_LoadingBracket ==
    [][\A s \in Searches :
          /\ (searches[s].pc = "idle" /\ searches'[s].pc # "idle") => isLoading'
          /\ (searches[s].pc # "embedding" /\ searches'[s].pc = "embedding") =>
                 (searches[s].pc = "reading" \/ (searches[s].pc = "idle" /\ isLoading'))
          /\ (searches[s].pc # "idle" /\ searches'[s].pc = "idle") => ~isLoading']_vars

\* a free-text search just failed while the list showed an item, the flag is false
C4_Witness ==
    /\ \E k \in 1..Len(notices) : notices[k].text = "Search failed"
    /\ contextItems # <<>>
    /\ ~isLoading

\* C6: a search that fails at any step leaves the list of context items as it was.
C6_FailureKeepsList ==
    [][\A s \in Searches : SearchFailed(s) => contextItems' = contextItems]_vars

\* the processes of the search workflow that run
RunningSearches == {s \in Searches : searches[s].pc \in {"embedding", "querying"}}

\* C9: at most one subprocess of the search workflow runs at any moment.
C9_OneSearchProcess == Cardinality(RunningSearches) <= 1

-----------------------------------------------------------------------------
(* The command-line variant of the note search: ContextFetcherService of the *)
(* revision that runs the claude command, with its tracked process, its stop *)
(* control and its timer.  A slot holds the state of one call of             *)
(* fetchContext: pc is the position of the call, proc the state of its       *)
(* process, code the exit code the process ends with, callbackCalled and     *)
(* timer the variables of the closure, stopped whether the user stopped the  *)
(* process while it ran.  The plugin class of this revision is not part of   *)
(* the sources: its setProcess, clearProcess and stopCurrentProcess follow   *)
(* the documented behaviour.                                                 *)

\* the plugin's setProcess(proc, timeoutId): the handles are remembered
setProcess(proc, timeoutId) == [process |-> proc, timeoutId |-> timeoutId]

\* the plugin's clearProcess(): both handles are forgotten
clearProcess == [process |-> None, timeoutId |-> None]

\* the plugin's stopCurrentProcess() after the call of the service's: the loading
\* state is cleared at once
pluginStopLoading(loading) == FALSE

\* an item of the command's answer
CliItem == [type |-> "reference", note |-> <<"n">>, anchor |-> EmptyStr, excerpt |-> DocA,
            reason |-> <<"r">>, action |-> "quote"]
CliItemLists == {<<>>, <<CliItem>>}

\* standard output of the command: not JSON, an envelope whose result text holds
\* a JSON array or none, a bare array, another JSON value
ClaudeStdouts ==
    {[shape |-> sh, items |-> <<>>] : sh \in {"invalid", "envelopeNoArray", "other"}} \cup
    {[shape |-> sh, items |-> l] : sh \in {"envelope", "array"}, l \in CliItemLists}

\* parseClaudeResponse: the array in response.result, else the response when it
\* is an array, else null
parseClaudeResponse(stdout) ==
    IF stdout.shape \in {"envelope", "array"} THEN Some(stdout.items) ELSE None

\* a mutant of the test of the close handler: only a numeric exit code fails
closeFailedOnNumber(code) == IsSome(code) /\ code # Some(0)

\* if (code !== 0) of the close handler; code is null (None) after a signal
closeFailed(code) == code # Some(0)

\* a mutant of clearTimeout: the timer is left as it is
clearTimeoutNothing(timer) == timer

\* clearTimeout(timeoutId): a timer that has not fired will not fire
clearTimeout(timer) == IF timer = "armed" THEN "cleared" ELSE timer

\* a mutant of the kill: the process is left running
KillProcNot(p) == p

\* proc.kill('SIGKILL') or taskkill /F on a process in state p
KillProc(p) == IF p = "running" THEN "killed" ELSE p

\* the exit code of a process killed by the stop control: null after the signal,
\* 1 after taskkill
KilledCode(win32) == IF win32 THEN Some(1) ELSE None

InitCli ==
    /\ QuizUnused
    /\ cli = [s \in Searches |-> IdleCli]
    /\ currentExecProcess = None
    /\ currentTimeoutId = None
    /\ contextItems = <<>>
    /\ isLoading = FALSE
    /\ notices = <<>>
    /\ MapperUnused
    /\ BridgeUnused
    /\ IndexUnused
    /\ SearchUnused
    /\ ConfigUnused
    /\ StoreUnused

\* the fetch button: fetchContextForCurrentNote sets the flag and fetchContext
\* runs up to the read of the command file; without a note only a notice.  The
\* call takes the first free slot.
CliStart(s, hasFile) ==
    /\ cli[s].pc = "idle"
    /\ \A t \in Searches : t < s => cli[t].pc # "idle"
    /\ IF hasFile
       THEN /\ cli' = [cli EXCEPT ![s] = [IdleCli EXCEPT !.pc = "reading"]]
            /\ isLoading' = TRUE
            /\ notices' = <<>>
       ELSE /\ notices' = <<Notice(s, "No file in active view", "")>>
            /\ UNCHANGED <<cli, isLoading>>
    /\ UNCHANGED <<contextItems, currentExecProcess, currentTimeoutId, outsideCli>>

\* the read of the command file settled: on failure a notice and the flag is
\* cleared; otherwise the timer is armed, the command is spawned and both
\* handles are handed to setProcess
CliRead(s, ok, launches) ==
    /\ cli[s].pc = "reading"
    /\ IF ok
       THEN /\ cli' = [cli EXCEPT ![s].pc = "running",
                                  ![s].proc = IF launches THEN "running" ELSE "unlaunched",
                                  ![s].timer = "armed"]
            /\ currentExecProcess' = setProcess(Some(s), Some(s)).process
            /\ currentTimeoutId' = setProcess(Some(s), Some(s)).timeoutId
            /\ notices' = <<>>
            /\ UNCHANGED isLoading
       ELSE /\ cli' = [cli EXCEPT ![s] = IdleCli]
            /\ notices' = <<Notice(s, "Failed to read command file", "ReadError")>>
            /\ isLoading' = FALSE
            /\ UNCHANGED <<currentExecProcess, currentTimeoutId>>
    /\ UNCHANGED <<contextItems, outsideCli>>

\* the command ends by itself
CliExit(s, code) ==
    /\ cli[s].proc = "running"
    /\ cli' = [cli EXCEPT ![s].proc = "exited", ![s].code = code]
    /\ notices' = <<>>
    /\ UNCHANGED <<viewVars, currentExecProcess, currentTimeoutId, outsideCli>>

\* execProcess.on('error') of a command that could not be launched
CliError(s) ==
    /\ cli[s].proc = "unlaunched"
    /\ cli' = [cli EXCEPT ![s].proc = "errored", ![s].code = LaunchFailCode,
                          ![s].callbackCalled = TRUE,
                          ![s].timer = clearTimeout(@)]
    /\ currentExecProcess' = clearProcess.process
    /\ currentTimeoutId' = clearProcess.timeoutId
    /\ isLoading' = FALSE
    /\ notices' = <<Notice(s, "Error running Claude command", "LaunchError")>>
    /\ UNCHANGED <<contextItems, outsideCli>>

\* execProcess.on('close')
CliClose(s, stdout) ==
    /\ cli[s].pc = "running"
    /\ cli[s].proc \in {"exited", "killed", "errored"}
    /\ cli' = [cli EXCEPT ![s].pc = "idle", ![s].proc = "closed", ![s].code = None,
                          ![s].callbackCalled = TRUE,
                          ![s].timer = clearTimeout(@)]
    /\ currentExecProcess' = clearProcess.process
    /\ currentTimeoutId' = clearProcess.timeoutId
    /\ isLoading' = FALSE
    /\ IF closeFailed(cli[s].code)
       THEN /\ notices' = <<Notice(s, "Claude command failed with code", "ProcessError")>>
            /\ UNCHANGED contextItems
       ELSE IF IsSome(parseClaudeResponse(stdout))
            THEN /\ contextItems' = Val(parseClaudeResponse(stdout))
                 /\ notices' = <<>>
            ELSE /\ notices' = <<Notice(s, "No valid context data found in response", "ParseError")>>
                 /\ UNCHANGED contextItems
    /\ UNCHANGED outsideCli

\* the timer of call s fires: unless a handler ran, the process is sent SIGTERM,
\* which ends it or which it survives, a notice is shown and the flag cleared
CliTimeout(s, dies) ==
    /\ cli[s].timer = "armed"
    /\ IF ~cli[s].callbackCalled
       THEN /\ cli' = [cli EXCEPT ![s].timer = "fired",
                                  ![s].proc = IF dies THEN KillProc(@) ELSE @,
                                  ![s].code = IF dies /\ cli[s].proc = "running" THEN None ELSE @]
            /\ notices' = <<Notice(s, "Command execution timed out - process killed", "Timeout")>>
            /\ isLoading' = FALSE
       ELSE /\ cli' = [cli EXCEPT ![s].timer = "fired"]
            /\ notices' = <<>>
            /\ UNCHANGED isLoading
    /\ UNCHANGED <<contextItems, currentExecProcess, currentTimeoutId, outsideCli>>

\* the notice of the service's stopCurrentProcess for a tracked process in state p
StopNotice(s, p, win32) ==
    IF win32 /\ p \notin {"unlaunched", "errored"}
    THEN IF p = "running" THEN Notice(s, "Context fetch process force killed", "")
         ELSE Notice(s, "Failed to force kill process", "KillError")
    ELSE Notice(s, "Context fetch process killed", "")

\* the stop button: the plugin's stopCurrentProcess calls the service's, which
\* kills the tracked process, forgets it, and clears and forgets the tracked timer
CliStop(win32) ==
    /\ currentExecProcess' = None
    /\ currentTimeoutId' = None
    /\ isLoading' = pluginStopLoading(isLoading)
    /\ cli' = [s \in Searches |->
                 [cli[s] EXCEPT
                    !.proc = IF currentExecProcess = Some(s) THEN KillProc(@) ELSE @,
                    !.code = IF currentExecProcess = Some(s) /\ cli[s].proc = "running"
                             THEN KilledCode(win32) ELSE @,
                    !.stopped = IF currentExecProcess = Some(s) /\ cli[s].proc = "running"
                                THEN TRUE ELSE @,
                    !.timer = IF currentTimeoutId = Some(s) THEN clearTimeout(@) ELSE @]]
    /\ notices' = IF IsSome(currentExecProcess)
                  THEN <<StopNotice(Val(currentExecProcess), cli[Val(currentExecProcess)].proc, win32)>>
                  ELSE <<>>
    /\ UNCHANGED <<contextItems, outsideCli>>

FetchClick == \E s \in Searches, hasFile \in BOOLEAN : CliStart(s, hasFile)
CommandRead == \E s \in Searches, ok \in BOOLEAN, launches \in BOOLEAN : CliRead(s, ok, launches)
CommandExits == \E s \in Searches, code \in {Some(0), Some(1)} : CliExit(s, code)
CommandError == \E s \in Searches : CliError(s)
CommandCloses == \E s \in Searches, stdout \in ClaudeStdouts : CliClose(s, stdout)
TimerFires == \E s \in Searches, dies \in BOOLEAN : CliTimeout(s, dies)
StopClick == \E win32 \in BOOLEAN : CliStop(win32)

NextCli ==
    \/ FetchClick
    \/ CommandRead
    \/ CommandExits
    \/ CommandError
    \/ CommandCloses
    \/ TimerFires
    \/ StopClick

SpecCli == InitCli /\ [][NextCli]_vars

\* C10: a stop while the tracked process runs kills that process and leaves the
\* loading flag false; the close of the stopped process leaves the flag false
\* and does not touch the list of context items.
C10_StopDiscardsOutput ==
    [][\A s \in Searches :
          /\ (~cli[s].stopped /\ cli'[s].stopped) => (cli'[s].proc = "killed" /\ ~isLoading')
          /\ (cli[s].stopped /\ cli[s].pc = "running" /\ cli'[s].pc = "idle") =>
                 (~isLoading' /\ contextItems' = contextItems)]_vars

\* a stopped fetch has closed while the list shows the items of an earlier one
C10_Witness ==
    \E s \in Searches :
        /\ cli[s].stopped /\ cli[s].proc = "closed"
        /\ contextItems # <<>>
        /\ ~isLoading

-----------------------------------------------------------------------------
(* Further properties of the search workflows *)

\* a text of blanks only, the empty text included
IsBlank(t) == \A i \in 1..Len(t) : t[i] = " "

\* C11: a click on Search with an empty or blank text starts no subprocess,
\* leaves the loading flag and the list of context items as they are, and shows
\* a notice.
C11_BlankQueryRejected ==
    [][\A input \in {t \in QueryTexts : IsBlank(t)}, s \in Searches :
          SearchClick(s, input) =>
              /\ searches' = searches
              /\ isLoading' = isLoading
              /\ contextItems' = contextItems
              /\ notices' = <<Notice(s, "Please enter a search query.", "")>>]_vars

\* the notice of a rejected query is shown while the list holds an item and a
\* search is in flight
C11_Witness ==
    /\ \E k \in 1..Len(notices) : notices[k].text = "Please enter a search query."
    /\ contextItems # <<>>
    /\ isLoading

\* the embedding process ended with a document that holds a non-empty list of
\* embeddings
HasEmbedding(outcome) ==
    /\ outcome.kind = "resolve"
    /\ IsSome(Val(outcome.value).embeddings)
    /\ Len(Val(Val(outcome.value).embeddings)) > 0

\* C17: within one search the query process is started only by the step in which
\* the embedding process ends with a non-empty embedding, so the two never run
\* together; when the embedding fails or is empty the search ends in that step
\* with a failure notice, no query process is started and no mapped result is
\* shown.
C17_QueryAfterEmbedding ==
    [][\A s \in Searches :
          /\ (searches[s].pc # "querying" /\ searches'[s].pc = "querying") =>
                 /\ searches[s].pc = "embedding"
                 /\ \E outcome \in EmbedOutcomes : HasEmbedding(outcome) /\ EmbedDone(s, outcome)
          /\ \A outcome \in EmbedOutcomes :
                 (~HasEmbedding(outcome) /\ EmbedDone(s, outcome)) =>
                     /\ searches'[s].pc = "idle"
                     /\ SearchFailed(s)
                     /\ contextItems' \in {contextItems, <<>>}]_vars

\* one search waits for its query while the embedding of the other just failed
\* for want of an embedding
C17_Witness ==
    /\ \E s \in Searches : searches[s].pc = "querying"
    /\ \E k \in 1..Len(notices) : notices[k].error = "EmbeddingError"

-----------------------------------------------------------------------------
(* Further properties of the Result Mapper *)

\* the rows of the response that are not the open note
OtherRows == {i \in 1..Len(mResults.documents) : ~RowIsOpenNote(i)}

\* the k-th of them in the order of the response
OtherRow(k) == CHOOSE i \in OtherRows : Cardinality({j \in OtherRows : j <= i}) = k

\* C12: the list returned is the rows that are not self-matches, each once, in
\* the order of the response: the k-th item is built from the k-th such row.
C12_KeptRowsInOrder ==
    mDone =>
        /\ Len(mOut) = Cardinality(OtherRows)
        /\ \A k \in 1..Len(mOut) :
              mOut[k] = ContextItemOf(mResults.documents[OtherRow(k)],
                                      MetaAt(mResults.metadatas, OtherRow(k)),
                                      DistanceAt(mResults.distances, OtherRow(k)))

\* three rows of which the second is the open note: the first and the third
\* are returned in that order
C12_Witness ==
    /\ mDone
    /\ Len(mResults.documents) = 3
    /\ OtherRows = {1, 3}
    /\ Len(mOut) = 2
    /\ mOut[1].excerpt = mResults.documents[1]
    /\ mOut[2].excerpt = mResults.documents[3]

-----------------------------------------------------------------------------
(* The Result Mapper on documents around the excerpt budget *)

\* a document of n characters: a head of ExcerptLen characters that begins with
\* "a" and ends with "z", and a tail of "t"
LongDoc(n) ==
    [j \in 1..n |-> IF j = 1 THEN "a" ELSE IF j = ExcerptLen THEN "z"
                    ELSE IF j > ExcerptLen THEN "t" ELSE "x"]

\* the lengths tried: empty, short, and from one under the budget on
DocLengths == {0, 1, ExcerptLen - 1} \cup (ExcerptLen..(ExcerptLen + MaxOver))

InitExcerpt ==
    /\ QuizUnused
    /\ \E n \in 1..MaxRows : \E ls \in [1..n -> DocLengths] :
          mResults = [documents |-> [i \in 1..n |-> LongDoc(ls[i])],
                      metadatas |-> [i \in 1..n |-> None],
                      distances |-> [i \in 1..n |-> Some(250)]]
    /\ mCurrent \in {EmptyStr, NotePath}
    /\ MapperIdle
    /\ BridgeUnused
    /\ IndexUnused
    /\ notices = <<>>
    /\ ViewUnused
    /\ SearchUnused
    /\ CliUnused
    /\ ConfigUnused
    /\ StoreUnused

SpecExcerpt == InitExcerpt /\ [][NextSelf]_vars

\* C13: the excerpt of an item is the first 240 characters of its row's document
\* when the document is longer than 240 characters, the whole document
\* otherwise, and so never longer than 240 characters.
C13_ExcerptBudget ==
    mDone => \A k \in 1..Len(mOut) :
                LET document == mResults.documents[mKept[k]]
                IN /\ Len(document) > 240 => mOut[k].excerpt = SubSeq(document, 1, 240)
                   /\ Len(document) <= 240 => mOut[k].excerpt = document
                   /\ Len(mOut[k].excerpt) <= 240

\* a document of more than 240 characters and one of exactly 240 were mapped
C13_Witness ==
    /\ mDone
    /\ \E k, l \in 1..Len(mOut) :
          /\ Len(mResults.documents[mKept[k]]) > 240
          /\ Len(mOut[k].excerpt) = 240
          /\ Len(mResults.documents[mKept[l]]) = 240

-----------------------------------------------------------------------------
(* Further properties of the command-line variant *)

\* C14: once the close or the error handler of a fetch has run, the timer of
\* that fetch does not fire and no timeout notice of that fetch is shown.
C14_NoTimeoutAfterCompletion ==
    [][\A s \in Searches : cli[s].callbackCalled =>
          /\ ~(cli[s].timer # "fired" /\ cli'[s].timer = "fired")
          /\ \A k \in 1..Len(notices') :
                ~(notices'[k].op = s /\ notices'[k].error = "Timeout")]_vars

\* a fetch has closed after showing its items, its timer cleared before firing
C14_Witness ==
    \E s \in Searches :
        /\ cli[s].callbackCalled /\ cli[s].proc = "closed"
        /\ cli[s].timer = "cleared"
        /\ contextItems # <<>>

\* the timer of fetch s fires in this step before any handler of its process ran
TimesOut(s) ==
    /\ cli[s].timer = "armed"
    /\ cli'[s].timer = "fired"
    /\ ~cli[s].callbackCalled

\* fetch s timed out and its process has not closed yet
TimedOut(s) == cli[s].timer = "fired" /\ cli[s].pc = "running"

\* C19: when the timer of a fetch fires before its process completed, the
\* process does not run on, the loading flag is false and the process is no
\* longer the tracked one; the close of a fetch that timed out leaves the list
\* of context items as it is.
C19_TimeoutCancelsLikeStop ==
    [][\A s \in Searches :
          /\ TimesOut(s) =>
                 /\ cli'[s].proc # "running"
                 /\ ~isLoading'
                 /\ currentExecProcess' # Some(s)
          /\ (TimedOut(s) /\ cli'[s].pc = "idle") => contextItems' = contextItems]_vars

\* C20: a stop while a process is tracked, in the one step of the stop action
\* and before the process has closed: the tracked process, if it ran, is killed,
\* the tracked timer will not fire, both tracked handles are cleared and the
\* loading flag is false.
C20_StopIsSynchronous ==
    [][\A p \in Searches, win32 \in BOOLEAN :
          (currentExecProcess = Some(p) /\ CliStop(win32)) =>
              /\ cli[p].proc = "running" => cli'[p].proc = "killed"
              /\ cli'[p].pc = cli[p].pc
              /\ \A t \in Searches : currentTimeoutId = Some(t) => cli'[t].timer # "armed"
              /\ currentExecProcess' = None
              /\ currentTimeoutId' = None
              /\ ~isLoading']_vars

\* a running tracked process was just stopped: it is killed and has not closed,
\* its timer is cleared, nothing is tracked and the flag is false
C20_Witness ==
    \E s \in Searches :
        /\ cli[s].stopped /\ cli[s].proc = "killed" /\ cli[s].pc = "running"
        /\ cli[s].timer = "cleared"
        /\ currentExecProcess = None /\ currentTimeoutId = None
        /\ ~isLoading

-----------------------------------------------------------------------------
(* The settings tab of main.ts and the settings the service works with: the  *)
(* plugin's settings object is changed by the fields of the tab, the service *)
(* reads the ChromaDBSettings object it was constructed with in onload, and  *)
(* a search builds its query request from that object once the embedding has *)
(* returned.  lookup.configured is the plugin's settings at the moment the   *)
(* search was triggered.                                                     *)

Hosts == {"localhost", "remote"}

\* what may be typed into a number field: digits and other characters
Digits == <<"0", "1", "2", "3", "4", "5", "6", "7", "8", "9">>
IsDigit(c) == \E d \in 1..Len(Digits) : Digits[d] = c
DigitValue(c) == (CHOOSE d \in 1..Len(Digits) : Digits[d] = c) - 1
TypedNumbers == StringsUpTo({"5", "x"}, MaxTyped)

RECURSIVE DecimalValue(_)
DecimalValue(t) ==
    IF t = <<>> THEN 0
    ELSE 10 * DecimalValue(SubSeq(t, 1, Len(t) - 1)) + DigitValue(t[Len(t)])

\* parseInt(value): the number of the leading digits, NaN (undefined here)
\* without one
parseInt(t) ==
    LET stops == {i \in 1..Len(t) : ~IsDigit(t[i])}
        n == IF stops = {} THEN Len(t) ELSE (CHOOSE i \in stops : \A j \in stops : i <= j) - 1
    IN IF n = 0 THEN None ELSE Some(DecimalValue(SubSeq(t, 1, n)))

\* runPythonScript('chroma_query.py', 'query', payload): the request written to
\* the script, from the settings object of the service
QueryRequest(st) ==
    [action |-> "query", host |-> st.host, port |-> st.port,
     collection_name |-> st.collectionName, n_results |-> st.searchMaxResults]

\* the plugin is loaded with the defaults or with what an earlier session saved
InitConfig ==
    /\ QuizUnused
    /\ \E host \in Hosts, name \in CollectionNames :
          settings = [DEFAULT_SETTINGS EXCEPT !.chromaHost = host,
                                              !.chromaCollectionName = name]
    /\ chromaSettings = onloadChromaSettings(settings)
    /\ lookup = IdleLookup
    /\ request = None
    /\ ops = [o \in Ops |-> IdleOp]
    /\ notices = <<>>
    /\ MapperUnused
    /\ BridgeUnused
    /\ ViewUnused
    /\ SearchUnused
    /\ CliUnused
    /\ StoreUnused

\* the ChromaDB Host field
ChangeHost(value) ==
    /\ settings' = [settings EXCEPT !.chromaHost = value]
    /\ UNCHANGED <<chromaSettings, lookup, request, outsideConfig>>

\* the ChromaDB Port field: a text that is no number changes nothing
ChangePort(value) ==
    /\ settings' = IF IsSome(parseInt(value))
                   THEN [settings EXCEPT !.chromaPort = Val(parseInt(value))]
                   ELSE settings
    /\ UNCHANGED <<chromaSettings, lookup, request, outsideConfig>>

\* the Collection Name field
ChangeCollectionName(value) ==
    /\ settings' = [settings EXCEPT !.chromaCollectionName = value]
    /\ UNCHANGED <<chromaSettings, lookup, request, outsideConfig>>

\* the Search Max Results field: a text that is no number changes nothing
ChangeMaxResults(value) ==
    /\ settings' = IF IsSome(parseInt(value))
                   THEN [settings EXCEPT !.searchMaxResults = Val(parseInt(value))]
                   ELSE settings
    /\ UNCHANGED <<chromaSettings, lookup, request, outsideConfig>>

\* a search is triggered: searchSimilarContent runs up to the await of
\* generateEmbedding
LookupStart ==
    /\ lookup.pc = "idle"
    /\ lookup' = [pc |-> "embedding", configured |-> settings]
    /\ UNCHANGED <<settings, chromaSettings, request, outsideConfig>>

\* the embedding returned: the query request is built and written to
\* chroma_query.py; or the embedding failed and the search ends
LookupEmbedded(ok) ==
    /\ lookup.pc = "embedding"
    /\ IF ok
       THEN /\ lookup' = [lookup EXCEPT !.pc = "querying"]
            /\ request' = Some(QueryRequest(chromaSettings))
       ELSE /\ lookup' = IdleLookup
            /\ request' = request
    /\ UNCHANGED <<settings, chromaSettings, outsideConfig>>

\* chroma_query.py ended
LookupEnds ==
    /\ lookup.pc = "querying"
    /\ lookup' = IdleLookup
    /\ UNCHANGED <<settings, chromaSettings, request, outsideConfig>>

HostChanged == \E value \in Hosts : ChangeHost(value)
PortChanged == \E value \in TypedNumbers : ChangePort(value)
CollectionNameChanged == \E value \in CollectionNames : ChangeCollectionName(value)
MaxResultsChanged == \E value \in TypedNumbers : ChangeMaxResults(value)
Embedded == \E ok \in BOOLEAN : LookupEmbedded(ok)

NextConfig ==
    \/ HostChanged
    \/ PortChanged
    \/ CollectionNameChanged
    \/ MaxResultsChanged
    \/ LookupStart
    \/ Embedded
    \/ LookupEnds

SpecConfig == InitConfig /\ [][NextConfig]_vars

\* C18: the query request of a search carries as n_results the maximum-results
\* setting configured when the search was triggered, and as host, port and
\* collection name the values configured then.
C18_RequestCarriesSettings ==
    lookup.pc = "querying" =>
        /\ IsSome(request)
        /\ Val(request).n_results = lookup.configured.searchMaxResults
        /\ Val(request).host = lookup.configured.chromaHost
        /\ Val(request).port = lookup.configured.chromaPort
        /\ Val(request).collection_name = lookup.configured.chromaCollectionName

-----------------------------------------------------------------------------
(* The index management calls of ChromaDBService against the vector         *)
(* database: clearCollection, indexFile and getDocumentsCount, each one run  *)
(* of a script with an argument list.  The scripts manage_index.py and       *)
(* get_doc_count.py and the database are not part of the sources; they       *)
(* follow the documented protocol: 'clear' empties the named collection,     *)
(* 'index' adds documents to it, and the count script reports                *)
(* {"success": true, "total_documents": n} for it.  One call is in flight at *)
(* a time, as for a caller that awaits each call.                            *)

\* a mutant of clearCollection: the action passed is 'index'
clearCollectionIndexes(st) ==
    [script |-> "manage_index.py", action |-> "index", host |-> st.host, port |-> st.port,
     collection |-> st.collectionName]

\* ChromaDBService.clearCollection: the argument list
clearCollection(st) ==
    [script |-> "manage_index.py", action |-> "clear", host |-> st.host, port |-> st.port,
     collection |-> st.collectionName]

\* ChromaDBService.indexFile: the argument list
indexFile(st) ==
    [script |-> "manage_index.py", action |-> "index", host |-> st.host, port |-> st.port,
     collection |-> st.collectionName]

\* ChromaDBService.getDocumentsCount: the argument list
getDocumentsCountArgs(st) ==
    [script |-> "get_doc_count.py", action |-> "count", host |-> st.host, port |-> st.port,
     collection |-> st.collectionName]

ServiceCalls == {"clearCollection", "indexFile", "getDocumentsCount"}

ArgsOf(method, st) ==
    CASE method = "clearCollection" -> clearCollection(st)
      [] method = "indexFile" -> indexFile(st)
      [] method = "getDocumentsCount" -> getDocumentsCountArgs(st)

\* manage_index.py on the database: the collection after the action
manage_index(args, colls) ==
    IF args.action = "clear" THEN [colls EXCEPT ![args.collection] = 0]
    ELSE [colls EXCEPT ![args.collection] = IF @ < MaxDocs THEN @ + 1 ELSE @]

\* what a script that ran to its end writes to standard output
ScriptStdout(args, colls) ==
    IF args.script = "get_doc_count.py"
    THEN <<JsonObject(Some(TRUE), None, None, Some(colls[args.collection]))>>
    ELSE <<OkDoc>>

\* what a script that could not reach the database writes, and its exit code
UnreachableStdout == <<WithError(FailDoc, Refused)>>
UnreachableCode == Some(1)

\* the result of a call of the service from the outcome of its process
ServiceResult(method, outcome) ==
    IF method = "getDocumentsCount" THEN chromaGetDocumentsCount(outcome) ELSE outcome

\* the plugin is loaded with the settings of an earlier session; the database
\* holds what earlier sessions indexed
InitStore ==
    /\ QuizUnused
    /\ \E name \in CollectionNames :
          settings = [DEFAULT_SETTINGS EXCEPT !.chromaCollectionName = name]
    /\ chromaSettings = onloadChromaSettings(settings)
    /\ lookup = IdleLookup
    /\ request = None
    /\ collections \in [CollectionNames -> 0..MaxDocs]
    /\ call = IdleCall
    /\ callLog = <<>>
    /\ ops = [o \in Ops |-> IdleOp]
    /\ notices = <<>>
    /\ MapperUnused
    /\ BridgeUnused
    /\ ViewUnused
    /\ SearchUnused
    /\ CliUnused

\* a method of the service up to its await: the process is spawned with the
\* argument list
ServiceCall(method) ==
    /\ call.pc = "idle"
    /\ call' = [pc |-> method, args |-> ArgsOf(method, chromaSettings)]
    /\ UNCHANGED <<collections, callLog, outsideStore>>

\* the last two calls that ended, oldest first
Logged(log, entry) == IF Len(log) < 2 THEN Append(log, entry) ELSE <<log[2], entry>>

\* the process ran and closed: the close handler settles the promise and the
\* method returns
ServiceCallEnds(reachable) ==
    /\ call.pc # "idle"
    /\ LET after == IF reachable /\ call.args.script = "manage_index.py"
                    THEN manage_index(call.args, collections) ELSE collections
           outcome == IF reachable
                      THEN runPythonScriptWithArgsClose(Some(0),
                                                        ScriptStdout(call.args, after))
                      ELSE runPythonScriptWithArgsClose(UnreachableCode, UnreachableStdout)
       IN /\ collections' = after
          /\ callLog' = Logged(callLog, [method |-> call.pc,
                                         result |-> ServiceResult(call.pc, outcome)])
    /\ call' = IdleCall
    /\ UNCHANGED outsideStore

Clear == ServiceCall("clearCollection")
IndexFile == ServiceCall("indexFile")
Count == ServiceCall("getDocumentsCount")
CallEnds == \E reachable \in BOOLEAN : ServiceCallEnds(reachable)

NextStore ==
    \/ Clear
    \/ IndexFile
    \/ Count
    \/ CallEnds

SpecStore == InitStore /\ [][NextStore]_vars

\* a clear that succeeded was followed at once by a count that succeeded
CountRightAfterClear ==
    /\ Len(callLog) = 2
    /\ callLog[1].method = "clearCollection"
    /\ callLog[1].result.kind = "resolve"
    /\ callLog[2].method = "getDocumentsCount"
    /\ callLog[2].result.kind = "resolve"

\* C16: a document count requested right after a clear that succeeded, with no
\* indexing in between, is 0.
C16_CountAfterClearIsZero ==
    CountRightAfterClear => callLog[2].result.value = Some(0)

\* the configured collection was cleared and counted as empty while the other
\* collection still holds a document
C16_Witness ==
    /\ CountRightAfterClear
    /\ callLog[2].result.value = Some(0)
    /\ collections[chromaSettings.collectionName] = 0
    /\ \E c \in CollectionNames : collections[c] > 0

-----------------------------------------------------------------------------
(* The commands that need a note: fetchContextForCurrentNote and             *)
(* indexCurrentNote of main.ts look for a markdown view and its file, the    *)
(* Index Folder button of the view for the active file and its folder.  Here *)
(* the indexing and the search workflows run side by side, one operation of  *)
(* each in flight at a time.  A view is undefined, or holds a file or none.  *)

Views == {None, Some(None)} \cup {Some(Some(p)) : p \in OpenNotes}

\* a mutant of the lookup: the first markdown leaf is taken whatever the active view
firstLeafView(active, leaves) == leaves

\* getActiveViewOfType(MarkdownView), else the view of the first markdown leaf
activeViewOf(active, leaves) == IF IsSome(active) THEN active ELSE leaves

\* activeView.file of the view found, undefined without a view
noteFileOf(view) == IF IsSome(view) THEN Val(view) ELSE None

\* the active file of the workspace: none, or a file with its parent folder's
\* path (undefined without a parent, possibly empty)
ActiveFiles == {None} \cup {Some([parent |-> f]) : f \in {None, Some(EmptyStr), Some(<<"f">>)}}

\* activeFile.parent?.path
folderPathOf(file) == Val(file).parent

\* if (folderPath): an undefined or empty path is no folder
IsFolder(folderPath) == IsSome(folderPath) /\ Val(folderPath) # EmptyStr

\* the fetch command or the Use Current Note button
FetchContextClick(s, active, leaves) ==
    UseCurrentNoteClick(s, noteFileOf(activeViewOf(active, leaves)))

\* the Index Current Note command or button
IndexNoteClick(o, active, leaves) ==
    StartIndexNote(o, IsSome(noteFileOf(activeViewOf(active, leaves))))

\* the Index Folder button
IndexFolderClick(o, file) ==
    StartIndexFolder(o, IsSome(file) /\ IsFolder(folderPathOf(file)))

\* the operation slot and the search slot in use
OneOp == {o \in Ops : \A q \in Ops : o <= q}
OneSearch == {s \in Searches : \A q \in Searches : s <= q}

FetchTried ==
    \E s \in OneSearch, active \in Views, leaves \in Views :
        FetchContextClick(s, active, leaves) /\ UNCHANGED startOrder
IndexNoteTried == \E o \in OneOp, active \in Views, leaves \in Views : IndexNoteClick(o, active, leaves)
IndexFolderTried == \E o \in OneOp, file \in ActiveFiles : IndexFolderClick(o, file)
OneIndexEnds == \E o \in OneOp, outcome \in StepOutcomes : IndexDone(o, outcome)
OneCountEnds ==
    \E o \in OneOp, outcome \in CountOutcomes, t \in ClockReadings : CountDone(o, outcome, t)
OneSaved == \E o \in OneOp : SaveDone(o)
OneNoteRead == \E s \in OneSearch, ok \in BOOLEAN : ReadDone(s, ok) /\ UNCHANGED startOrder
OneEmbedEnds ==
    \E s \in OneSearch, outcome \in EmbedOutcomes : EmbedDone(s, outcome) /\ UNCHANGED startOrder
OneQueryEnds ==
    \E s \in OneSearch, outcome \in QueryOutcomes : QueryDone(s, outcome) /\ UNCHANGED startOrder

NextTargets ==
    \/ FetchTried
    \/ IndexNoteTried
    \/ IndexFolderTried
    \/ OneIndexEnds
    \/ OneCountEnds
    \/ OneSaved
    \/ OneNoteRead
    \/ OneEmbedEnds
    \/ OneQueryEnds

SpecTargets == InitIndex /\ [][NextTargets]_vars

\* there is no markdown view, or the view looked at holds no file
NoNote(active, leaves) ==
    \/ active = None /\ leaves = None
    \/ active = Some(None)
    \/ active = None /\ leaves = Some(None)

\* there is no active file, or its folder has no path
NoFolder(file) ==
    \/ file = None
    \/ Val(file).parent = None
    \/ Val(file).parent = Some(EmptyStr)

\* the step starts nothing and changes nothing but the notice shown
OnlyANotice ==
    /\ ops' = ops
    /\ searches' = searches
    /\ isLoading' = isLoading
    /\ contextItems' = contextItems
    /\ settings' = settings
    /\ Len(notices') = 1

\* C21: fetch-context and index-current-note without a markdown view or a file,
\* and index-folder without an active file or a folder, start no operation,
\* leave the loading flag, the list of context items, totalDocuments and
\* lastIndexedDate as they are and show one notice.
C21_NoTargetOnlyNotice ==
    [][/\ \A active \in Views, leaves \in Views :
              NoNote(active, leaves) =>
                  /\ \A s \in OneSearch : FetchContextClick(s, active, leaves) => OnlyANotice
                  /\ \A o \in OneOp : IndexNoteClick(o, active, leaves) => OnlyANotice
       /\ \A file \in ActiveFiles :
              NoFolder(file) => \A o \in OneOp : IndexFolderClick(o, file) => OnlyANotice]_vars

\* index-current-note was refused while a search is loading, the list shows an
\* item and a count is stored
C21_Witness ==
    /\ \E k \in 1..Len(notices) : notices[k].text = "No active note to index."
    /\ isLoading
    /\ contextItems # <<>>
    /\ settings.totalDocuments > 0

-----------------------------------------------------------------------------
(* The Result Mapper on rows that differ in their distance, and on rows that *)
(* differ in what their metadata holds.  Distances are in thousandths.       *)

\* the distances of a response: an exact match, values around a rounding step,
\* a usual value, and a row without a distance
Distances == {None, Some(0), Some(4), Some(5), Some(250), Some(1000)}

\* the metadata of a row: no record, or a record with or without its fields
HeadingH == <<"h">>
RowMetas ==
    {None} \cup
    {Some([filename |-> fh[1], heading |-> fh[2], relative_path |-> rp]) :
        fh \in {<<None, None>>, <<Some(FileA), Some(HeadingH)>>},
        rp \in {None, Some(EmptyStr), Some(NotePath)}} \cup
    {Some([filename |-> Some(FileA), heading |-> None, relative_path |-> None]),
     Some([filename |-> None, heading |-> Some(HeadingH), relative_path |-> None])}

\* a usual row
FullMeta == Some([filename |-> Some(FileA), heading |-> Some(HeadingH), relative_path |-> Some(<<"b">>)])
UsualDistance == Some(250)

InitRows ==
    /\ QuizUnused
    /\ \E n \in 0..MaxRows :
          \/ \E ds \in [1..n -> Distances] :
                mResults = [documents |-> [i \in 1..n |-> DocOf(i)],
                            metadatas |-> [i \in 1..n |-> FullMeta], distances |-> ds]
          \/ \E ms \in [1..n -> RowMetas] :
                mResults = [documents |-> [i \in 1..n |-> DocOf(i)],
                            metadatas |-> ms, distances |-> [i \in 1..n |-> UsualDistance]]
    /\ mCurrent \in {EmptyStr, NotePath}
    /\ MapperIdle
    /\ BridgeUnused
    /\ IndexUnused
    /\ notices = <<>>
    /\ ViewUnused
    /\ SearchUnused
    /\ CliUnused
    /\ ConfigUnused
    /\ StoreUnused

SpecRows == InitRows /\ [][NextSelf]_vars

\* a number of thousandths rounded to hundredths
Hundredths(d) == (d + 5) \div 10

\* C22: the reason of every mapped row shows the distance of that row rounded
\* to two decimal places, a distance of 0 included.
C22_ReasonShowsDistance ==
    mDone => \A k \in 1..Len(mOut) :
                IsSome(mResults.distances[mKept[k]]) =>
                    mOut[k].reason = Hundredths(Val(mResults.distances[mKept[k]]))

\* the metadata record of row i, if it has one
HasMeta(i) == IsSome(mResults.metadatas[i])
MetaOf(i) == Val(mResults.metadatas[i])

C24_FreeTextKeepsEveryRow ==
    (mDone /\ mCurrent = EmptyStr) => Len(mOut) = Len(mResults.documents)

-----------------------------------------------------------------------------
(* Overlapping searches.  Neither searchQuery nor fetchContext checks for a
   search in flight, and each ends with setLoading(false) and hands its list to
   updateContext, whatever the other searches do.  The order of the starts is
   recorded next to the searches to tell what an overtaken search does. *)

\* C25: while a search is in flight the loading flag is true.
C25_LoadingWhileInFlight ==
    (\E s \in Searches : searches[s].pc # "idle") => isLoading

\* the searches that started and that returned in the step taken, and those of
\* the returned that called updateContext: fetchContext always, searchQuery
\* unless a step failed
Started == {s \in Searches : searches[s].pc = "idle" /\ searches'[s].pc # "idle"}
Returned == {s \in Searches : searches[s].pc # "idle" /\ searches'[s].pc = "idle"}
Handed == {s \in Returned : searches[s].kind = "note" \/ ~SearchFailed(s)}

\* search t started before search s, both in flight
StartedBefore(t, s) ==
    \E i, j \in 1..Len(startOrder.order) :
        i < j /\ startOrder.order[i] = t /\ startOrder.order[j] = s

\* the record of the starts follows the step taken
Follow ==
    startOrder' =
        LET gone == Returned
            inFlight(t) == t \notin gone
        IN [order |-> SelectSeq(startOrder.order, inFlight) \o
                          (IF Started = {} THEN <<>> ELSE <<CHOOSE s \in Started : TRUE>>),
            overtaken |-> (startOrder.overtaken \cup
                              {t \in Searches : \E s \in Handed : StartedBefore(t, s)}) \ gone]

OrderedSearch == \E s \in Searches, input \in QueryTexts : SearchClick(s, input) /\ Follow
OrderedUseCurrentNote ==
    \E s \in Searches, file \in {None} \cup {Some(p) : p \in OpenNotes} :
        UseCurrentNoteClick(s, file) /\ Follow
OrderedNoteRead == \E s \in Searches, ok \in BOOLEAN : ReadDone(s, ok) /\ Follow
OrderedEmbedEnds == \E s \in Searches, outcome \in EmbedOutcomes : EmbedDone(s, outcome) /\ Follow
OrderedQueryEnds == \E s \in Searches, outcome \in QueryOutcomes : QueryDone(s, outcome) /\ Follow
OrderedClear == ClearClick /\ Follow

NextOverlap ==
    \/ OrderedSearch
    \/ OrderedUseCurrentNote
    \/ OrderedNoteRead
    \/ OrderedEmbedEnds
    \/ OrderedQueryEnds
    \/ OrderedClear

SpecOverlap == InitSearch /\ [][NextOverlap]_vars

\* C26: a search that returns after a search started later has handed its list
\* to the view leaves the list of context items as it is, so that the list
\* shown when all have returned is the one of the search started last.
C26_LastStartedWins ==
    [][\A s \in Returned : s \in startOrder.overtaken => contextItems' = contextItems]_vars

-----------------------------------------------------------------------------
(* The quiz app (quiz-engine.js): the QuizEngine over one loaded quiz.  One
   step is one click.  A button is clicked only while its screen is the
   visible one and the button itself is neither hidden nor disabled. *)

\* the options of a question, by index
Options == 0..(MaxOptions - 1)

\* the quizzes loadQuizzes may hold: at least one question, each with the index
\* of its correct option
Quizzes == UNION {[1..n -> Options] : n \in 1..MaxQuestions}

\* this.currentQuiz.questions.length
NumQuestions(q) == Len(Val(q.currentQuiz))

\* this.currentQuiz.questions[this.currentQuestionIndex].correctAnswer
correctAnswer(q) == Val(q.currentQuiz)[q.currentQuestionIndex + 1]

\* a mutant of showFeedback: no question is taken for the last one
isLastQuestionNever(q) == FALSE

isLastQuestion(q) == q.currentQuestionIndex = NumQuestions(q) - 1

showQuestion(q) == [q EXCEPT !.screen = "question", !.selectedAnswer = None]

startQuiz(q) ==
    showQuestion([q EXCEPT !.currentQuiz = Some(q.quizzes), !.currentQuestionIndex = 0,
                           !.score = 0, !.selectedAnswer = None])

resetProgress(q) == [q EXCEPT !.currentQuestionIndex = 0, !.score = 0, !.selectedAnswer = None]

showWelcome(q) == resetProgress([q EXCEPT !.screen = "welcome"])

\* the screen of the page each button sits on
ButtonScreen(button) ==
    CASE button = "start-quiz" -> "welcome"
      [] button \in {"option", "submit-answer"} -> "question"
      [] button \in {"next-question", "finish-quiz"} -> "feedback"
      [] button \in {"restart-quiz", "select-new-quiz"} -> "results"

\* showFeedback shows one of Next and Finish; Submit is disabled from
\* showQuestion to selectOption
Hidden(button) ==
    CASE button = "next-question" -> isLastQuestion(quiz)
      [] button = "finish-quiz" -> ~isLastQuestion(quiz)
      [] button = "submit-answer" -> ~IsSome(quiz.selectedAnswer)
      [] OTHER -> FALSE

Visible(button) == quiz.screen = ButtonScreen(button) /\ ~Hidden(button)

InitQuiz ==
    /\ \E questions \in Quizzes : quiz = NewQuizEngine(questions)
    /\ answered = <<>>
    /\ MapperUnused
    /\ BridgeUnused
    /\ IndexUnused
    /\ notices = <<>>
    /\ ViewUnused
    /\ SearchUnused
    /\ CliUnused
    /\ ConfigUnused
    /\ StoreUnused

StartQuizClick ==
    /\ Visible("start-quiz")
    /\ quiz' = startQuiz(quiz)
    /\ answered' = <<>>
    /\ UNCHANGED outsideQuiz

selectOption(index) ==
    /\ Visible("option")
    /\ quiz' = [quiz EXCEPT !.selectedAnswer = Some(index)]
    /\ UNCHANGED <<answered, outsideQuiz>>

\* submitAnswer with showFeedback; the answer is noted with its question
submitAnswer ==
    /\ Visible("submit-answer")
    /\ IF ~IsSome(quiz.selectedAnswer)
       THEN UNCHANGED <<quiz, answered>>
       ELSE LET isCorrect == Val(quiz.selectedAnswer) = correctAnswer(quiz)
            IN /\ quiz' = [quiz EXCEPT !.score = IF isCorrect THEN @ + 1 ELSE @,
                                       !.screen = "feedback"]
               /\ answered' = Append(answered, [question |-> quiz.currentQuestionIndex,
                                                isCorrect |-> isCorrect])
    /\ UNCHANGED outsideQuiz

nextQuestion ==
    /\ Visible("next-question")
    /\ quiz' = showQuestion([quiz EXCEPT !.currentQuestionIndex = @ + 1])
    /\ UNCHANGED <<answered, outsideQuiz>>

\* the Finish button
showResults ==
    /\ Visible("finish-quiz")
    /\ quiz' = [quiz EXCEPT !.screen = "results"]
    /\ UNCHANGED <<answered, outsideQuiz>>

restartQuiz ==
    /\ Visible("restart-quiz")
    /\ quiz' = startQuiz(quiz)
    /\ answered' = <<>>
    /\ UNCHANGED outsideQuiz

\* the Select New Quiz button
SelectNewQuizClick ==
    /\ Visible("select-new-quiz")
    /\ quiz' = showWelcome(quiz)
    /\ answered' = <<>>
    /\ UNCHANGED outsideQuiz

OptionClick == \E index \in Options : selectOption(index)

NextQuiz ==
    \/ StartQuizClick
    \/ OptionClick
    \/ submitAnswer
    \/ nextQuestion
    \/ showResults
    \/ restartQuiz
    \/ SelectNewQuizClick

SpecQuiz == InitQuiz /\ [][NextQuiz]_vars

\* the answers submitted since the start that were counted as correct
CountedCorrect == {k \in 1..Len(answered) : answered[k].isCorrect}

====
